---- MODULE Spec2Model ----
(***************************************************************************)
(* Neume/syllable annotation console: the connection inference function    *)
(* findConnections of the client App component.                            *)
(*                                                                         *)
(* Numbers.  The code works on JavaScript numbers and halves widths        *)
(* (x + width / 2).  The model keeps every quantity that can be a half as  *)
(* twice its value, an integer: Twice(v) == 2 * v, centerX2 == 2*x + width. *)
(* A comparison a < b of the code is the comparison 2a < 2b of the model.   *)
(*                                                                         *)
(* The application around it (App): the record store fed by the data       *)
(* channel's message listener, the effect that recomputes the connections, *)
(* startSession / stopSession, and the two HTTP routes of the server.      *)
(*                                                                         *)
(* Records.  An annotation record is a TLA+ record with the fields type,   *)
(* x, y, width, height.  A coordinate that is not a number in the code     *)
(* (JSON null) is a field the TLA+ record lacks: typeof v === 'number' is  *)
(* "the field is there", and arithmetic reads a null as 0, as JavaScript's *)
(* ToNumber does.                                                           *)
(***************************************************************************)
EXTENDS Integers, Sequences, FiniteSets

VARIABLES
    events,           \* useState: the annotation records
    connections,      \* useState: the connections drawn
    pc,               \* "ready": the effect on [events] has yet to run
    activeMarker,     \* useRef: <<>> for null, else <<the draft marker>>
    start,            \* per startSession call: the await it is suspended at
    key,              \* per startSession call: EPHEMERAL_KEY is defined
    dc,               \* per startSession call: its RTCDataChannel
    listening,        \* per startSession call: listeners attached to dc
    peer,             \* per startSession call: its RTCPeerConnection
    track,            \* per startSession call: its microphone track
    dataChannel,      \* useState: 0 for null, else the call whose dc it is
    peerConnection,   \* useRef: 0 for null, else the call whose pc it is
    isSessionActive,  \* useState
    stopped,          \* per startSession call: stopSession ran after it began
    reply,            \* what the server route that ran last answered
    received,         \* the server event the message listener ran on last
    trace             \* what that run of the listener called, in order

appVars ==
    <<activeMarker, start, key, dc, listening, peer, track, dataChannel,
      peerConnection, isSessionActive, stopped, reply, received, trace>>

vars == <<events, connections, pc, appVars>>

-----------------------------------------------------------------------------
(* Bounds of the model *)

\* longest record sequence handed to findConnections
MaxLen == 3

\* the placed boxes the inputs are drawn from
Box4(type, x, y, width, height) ==
    [type |-> type, x |-> x, y |-> y, width |-> width, height |-> height]

\* neumes with top edge 1 and left edge 3: center 3.5 or 4, height 1 or 0
NeumeRecords ==
    { Box4("neume-type", 3, 1, 1, 1),
      Box4("neume-type", 3, 1, 2, 1),
      Box4("neume-type", 3, 1, 2, 0) }

SyllableRecords ==
    { Box4("syllable-type", 3, 0, 1, 1),    \* above the neumes
      Box4("syllable-type", 3, 1, 1, 1),    \* level with the neumes' top
      Box4("syllable-type", 3, 3, 1, 1),    \* centered, one line lower
      Box4("syllable-type", 3, 3, 2, 1),
      Box4("syllable-type", 3, 7, 1, 1),    \* centered, five lines lower
      Box4("syllable-type", 0, 2, 2, 1),    \* far left, inside its band
      Box4("syllable-type", 0, 2, 1, 1),    \* far left, outside its band
      Box4("syllable-type", 4, 2, 2, 1) }   \* to the right, directly below

\* records whose x or y is not a number (null)
MalformedRecords ==
    { [type |-> "neume-type", x |-> 3, width |-> 2, height |-> 1],
      [type |-> "syllable-type", y |-> 2, width |-> 2, height |-> 1] }

Records == NeumeRecords \cup SyllableRecords \cup MalformedRecords

Inputs == UNION { [1..n -> Records] : n \in 0..MaxLen }

\* the boxes of Scenario A (a neume box with a syllable box directly below)
\* and a third box between them, under each of three type tags
ScenarioTypes == {"neume-type", "syllable-type", "neume"}

ScenarioBoxes == { <<0, 0, 10, 10>>, <<0, 15, 10, 5>>, <<2, 12, 7, 5>> }

ScenarioRecords ==
    { Box4(t, b[1], b[2], b[3], b[4]) : t \in ScenarioTypes, b \in ScenarioBoxes }

ScenarioInputs == UNION { [1..n -> ScenarioRecords] : n \in 0..MaxLen }

-----------------------------------------------------------------------------
(* findConnections *)

\* typeof bounds[f] === 'number'
IsNumber(bounds, f) == f \in DOMAIN bounds

\* the value an arithmetic operator or a comparison reads from bounds[f]
Num(bounds, f) == IF f \in DOMAIN bounds THEN bounds[f] ELSE 0

Twice(v) == 2 * v

Abs(v) == IF v < 0 THEN -v ELSE v

\* the guard of the forEach callback: records that take part in the inference
HasNumericPositionOnlyX(bounds) == IsNumber(bounds, "x")

HasNumericPosition(bounds) == IsNumber(bounds, "x") /\ IsNumber(bounds, "y")

\* { ...bounds, index }
WithIndex(bounds, index) ==
    [f \in DOMAIN bounds \cup {"index"} |->
        IF f = "index" THEN index ELSE bounds[f]]

\* the records of the input with positions counted from 1
IndexedFromOne(evs) == [i \in 1..Len(evs) |-> WithIndex(evs[i], i)]

\* the records of the input with their 0-based positions
Indexed(evs) == [i \in 1..Len(evs) |-> WithIndex(evs[i], i - 1)]

IsNeumeCandidate(r) == HasNumericPosition(r) /\ r.type = "neume-type"
\* the else branch taken by the syllable tag only
IsSyllableCandidateByTag(r) ==
    HasNumericPosition(r) /\ r.type = "syllable-type"

IsSyllableCandidate(r) == HasNumericPosition(r) /\ r.type # "neume-type"

neumes(evs) == SelectSeq(Indexed(evs), IsNeumeCandidate)
syllables(evs) == SelectSeq(Indexed(evs), IsSyllableCandidate)

neumeBottomY(neume) == Num(neume, "y") + Num(neume, "height")
\* twice neume.x + neume.width / 2, and the same for a syllable
CenterX2(r) == Twice(Num(r, "x")) + Num(r, "width")

verticalDist(neume, syllable) == Num(syllable, "y") - neumeBottomY(neume)
horizontalDist2(neume, syllable) == Abs(CenterX2(neume) - CenterX2(syllable))

\* twice verticalDist * 2 + horizontalDist
distance2Unweighted(neume, syllable) ==
    Twice(verticalDist(neume, syllable)) + horizontalDist2(neume, syllable)

distance2(neume, syllable) ==
    Twice(verticalDist(neume, syllable) * 2) + horizontalDist2(neume, syllable)

\* the two nested conditions under which a syllable is scored for a neume
IsEligibleInclusiveGap(neume, syllable) ==
    LET syllableTop == Num(syllable, "y")
        syllableLeft == Num(syllable, "x")
        syllableRight == Num(syllable, "x") + Num(syllable, "width")
        isBelow == syllableTop >= Num(neume, "y")
        isHorizontallyValid ==
            /\ CenterX2(neume) >= Twice(syllableLeft - Num(syllable, "width"))
            /\ CenterX2(neume) <= Twice(syllableRight + Num(syllable, "width"))
        maxVerticalGap == Num(neume, "height") * 5
    IN  /\ isBelow /\ isHorizontallyValid
        /\ verticalDist(neume, syllable) >= 0
        /\ verticalDist(neume, syllable) <= maxVerticalGap

IsEligibleAnyDirection(neume, syllable) ==
    LET syllableLeft == Num(syllable, "x")
        syllableRight == Num(syllable, "x") + Num(syllable, "width")
        isHorizontallyValid ==
            /\ CenterX2(neume) >= Twice(syllableLeft - Num(syllable, "width"))
            /\ CenterX2(neume) <= Twice(syllableRight + Num(syllable, "width"))
        maxVerticalGap == Num(neume, "height") * 5
    IN  /\ isHorizontallyValid
        /\ Abs(verticalDist(neume, syllable)) < maxVerticalGap

IsEligibleNarrowBand(neume, syllable) ==
    LET syllableTop == Num(syllable, "y")
        syllableLeft == Num(syllable, "x")
        syllableRight == Num(syllable, "x") + Num(syllable, "width")
        isBelow == syllableTop >= Num(neume, "y")
        isHorizontallyValid ==
            /\ CenterX2(neume) >= Twice(syllableLeft)
            /\ CenterX2(neume) <= Twice(syllableRight)
        maxVerticalGap == Num(neume, "height") * 5
    IN  /\ isBelow /\ isHorizontallyValid
        /\ verticalDist(neume, syllable) >= 0
        /\ verticalDist(neume, syllable) < maxVerticalGap

IsEligible(neume, syllable) ==
    LET syllableTop == Num(syllable, "y")
        syllableLeft == Num(syllable, "x")
        syllableRight == Num(syllable, "x") + Num(syllable, "width")
        isBelow == syllableTop >= Num(neume, "y")
        isHorizontallyValid ==
            /\ CenterX2(neume) >= Twice(syllableLeft - Num(syllable, "width"))
            /\ CenterX2(neume) <= Twice(syllableRight + Num(syllable, "width"))
        maxVerticalGap == Num(neume, "height") * 5
    IN  /\ isBelow /\ isHorizontallyValid
        /\ verticalDist(neume, syllable) >= 0
        /\ verticalDist(neume, syllable) < maxVerticalGap

\* the state of the inner loop: bestSyllable is <<>> for null, else <<s>>;
\* bestDistance is <<>> for Infinity, else <<twice the distance>>
NoBest == [bestSyllable |-> <<>>, bestDistance |-> <<>>]

\* distance < bestDistance
ImprovesOrEquals(distance, bestDistance) ==
    bestDistance = <<>> \/ distance <= bestDistance[1]

Improves(distance, bestDistance) ==
    bestDistance = <<>> \/ distance < bestDistance[1]

\* one pass of the inner loop body
ConsiderKeepingDistance(best, neume, syllable) ==
    IF /\ IsEligible(neume, syllable)
       /\ Improves(distance2(neume, syllable), best.bestDistance)
    THEN [bestSyllable |-> <<syllable>>, bestDistance |-> best.bestDistance]
    ELSE best

Consider(best, neume, syllable) ==
    IF /\ IsEligible(neume, syllable)
       /\ Improves(distance2(neume, syllable), best.bestDistance)
    THEN [bestSyllable |-> <<syllable>>,
          bestDistance |-> <<distance2(neume, syllable)>>]
    ELSE best

\* the inner loop over the syllables, in their order
RECURSIVE BestAfter(_, _, _)
BestAfter(neume, syls, k) ==
    IF k = 0 THEN NoBest
    ELSE Consider(BestAfter(neume, syls, k - 1), neume, syls[k])

ConnectionToSyllableBottom(neume, bestSyllable) ==
    [neumeId |-> neume.index,
     syllableId |-> bestSyllable.index,
     neumeX2 |-> Twice(Num(neume, "x")) + Num(neume, "width"),
     neumeY |-> Num(neume, "y") + Num(neume, "height"),
     syllableX2 |-> Twice(Num(bestSyllable, "x")) + Num(bestSyllable, "width"),
     syllableY |-> Num(bestSyllable, "y") + Num(bestSyllable, "height")]

\* the connection pushed for a neume and its best syllable; neumeX2 and
\* syllableX2 are twice neumeX and syllableX
Connection(neume, bestSyllable) ==
    [neumeId |-> neume.index,
     syllableId |-> bestSyllable.index,
     neumeX2 |-> Twice(Num(neume, "x")) + Num(neume, "width"),
     neumeY |-> Num(neume, "y") + Num(neume, "height"),
     syllableX2 |-> Twice(Num(bestSyllable, "x")) + Num(bestSyllable, "width"),
     syllableY |-> Num(bestSyllable, "y")]

\* what one pass of the outer loop pushes: nothing, or the neume's connection
RECURSIVE PushedForEveryCandidate(_, _)
PushedForEveryCandidate(neume, syls) ==
    IF syls = <<>> THEN <<>>
    ELSE (IF IsEligible(neume, Head(syls))
          THEN <<Connection(neume, Head(syls))>> ELSE <<>>)
         \o PushedForEveryCandidate(neume, Tail(syls))

Pushed(neume, syls) ==
    LET best == BestAfter(neume, syls, Len(syls))
    IN  IF best.bestSyllable # <<>>
        THEN <<Connection(neume, best.bestSyllable[1])>>
        ELSE <<>>

\* the outer loop over the neumes, in their order
RECURSIVE ConnectionsAfter(_, _, _)
ConnectionsAfter(ns, syls, k) ==
    IF k = 0 THEN <<>>
    ELSE ConnectionsAfter(ns, syls, k - 1) \o Pushed(ns[k], syls)

RECURSIVE ConnectionsAfterPrepending(_, _, _)
ConnectionsAfterPrepending(ns, syls, k) ==
    IF k = 0 THEN <<>>
    ELSE Pushed(ns[k], syls) \o ConnectionsAfterPrepending(ns, syls, k - 1)

findConnectionsPrepending(evs) ==
    ConnectionsAfterPrepending(neumes(evs), syllables(evs), Len(neumes(evs)))

findConnections(evs) ==
    ConnectionsAfter(neumes(evs), syllables(evs), Len(neumes(evs)))

-----------------------------------------------------------------------------
(* The application: bounds *)

\* most records the store holds
MaxRecords == 2

\* longest output list of a server event
MaxEntries == 2

\* the calls of startSession, in the order they are made
Sessions == {1, 2}

\* the boxes a draft marker is placed at: a neume and the syllable below it
MarkerBoxes ==
    { [x |-> 3, y |-> 1, width |-> 2, height |-> 1],
      [x |-> 4, y |-> 2, width |-> 2, height |-> 1] }

\* what getBBox() of a draft marker returns: <<>> when falsy, else <<box>>
MarkerStates == {<<>>} \cup { <<b>> : b \in MarkerBoxes }

\* what getBBox() of a draft returns before the user has touched it
FreshStates == { <<>>, << [x |-> 4, y |-> 2, width |-> 2, height |-> 1] >> }

\* the arguments strings of function calls
ArgumentStrings ==
    { "{\"type\":\"neume-type\",\"value\":\"punctum\"}",
      "{\"type\":\"syllable-type\",\"value\":\"al\"}" }

\* JSON.parse on the arguments strings
JSONparse(text) ==
    IF text = "{\"type\":\"neume-type\",\"value\":\"punctum\"}"
    THEN [type |-> "neume-type", value |-> "punctum"]
    ELSE [type |-> "syllable-type", value |-> "al"]

\* the entries of an output list
OutputEntries ==
    { [type |-> "function_call", call_id |-> "call_a",
       arguments |-> "{\"type\":\"neume-type\",\"value\":\"punctum\"}"],
      [type |-> "function_call", call_id |-> "call_b",
       arguments |-> "{\"type\":\"syllable-type\",\"value\":\"al\"}"],
      [type |-> "message"] }

\* the output lists: no entry twice, as every call has its own call_id
OutputLists ==
    { o \in UNION { [1..n -> OutputEntries] : n \in 0..MaxEntries } :
        \A j, k \in 1..Len(o) : j # k => o[j] # o[k] }

\* the server events: response.done with an output list, with a response
\* that has no output, and without a response; and an event of another type
\* that carries an output list all the same
ServerEvents ==
    { [type |-> "response.done", response |-> [output |-> o]] :
        o \in OutputLists }
    \cup { [type |-> "response.done", response |-> [status |-> "failed"]] }
    \cup { [type |-> "response.done"] }
    \cup { [type |-> "response.output_audio_transcript.delta",
            response |->
              [output |-> << [type |-> "function_call", call_id |-> "call_a",
                              arguments |->
                                "{\"type\":\"neume-type\",\"value\":\"punctum\"}"] >>]] }

\* the server events of the runs with two sessions: one function call, two
\* function calls, and an event of another type
RestartEvents ==
    { e \in ServerEvents :
        /\ "response" \in DOMAIN e
        /\ "output" \in DOMAIN e.response
        /\ Len(e.response.output) >= 1
        /\ \A k \in 1..Len(e.response.output) :
              /\ e.response.output[k].type = "function_call"
              /\ e.response.output[k].call_id =
                    (IF k = 1 THEN "call_a" ELSE "call_b") }

\* received when the listener has not run last: no channel, no event
NoEvent == [channel |-> 0]

-----------------------------------------------------------------------------
(* The application: the message listener *)

\* the state a run of the listener works on
ListenerState(evs, marker, tr) == [events |-> evs, activeMarker |-> marker, trace |-> tr]

\* { ...item, ...state }: the fields of state win over those of item
Spread(item, state) ==
    [f \in DOMAIN item \cup DOMAIN state |->
        IF f \in DOMAIN state THEN state[f] ELSE item[f]]

\* markerArea.createMarker(AnnotationMarker): a draft without annotation whose
\* getBBox() is fresh
createMarker(fresh) == << [state |-> fresh, annotation |-> <<>>] >>

\* marker.setAnnotation(item) on the active marker
Annotated(marker, item) == << [marker[1] EXCEPT !.annotation = <<item>>] >>

\* handleEvent putting the new record first
handleEventPrepending(st, item, fresh) ==
    LET called == Append(st.trace, [op |-> "handleEvent", item |-> item])
    IN  IF st.activeMarker = <<>>
        THEN [st EXCEPT !.trace = called]
        ELSE LET state == st.activeMarker[1].state
             IN  IF state = <<>>
                 THEN [st EXCEPT !.trace = called,
                                 !.activeMarker = Annotated(@, item)]
                 ELSE [events |-> <<Spread(item, state[1])>> \o st.events,
                       activeMarker |-> createMarker(fresh),
                       trace |-> called]

\* handleEvent without its call of createMarker
handleEventKeepingMarker(st, item, fresh) ==
    LET called == Append(st.trace, [op |-> "handleEvent", item |-> item])
    IN  IF st.activeMarker = <<>>
        THEN [st EXCEPT !.trace = called]
        ELSE LET state == st.activeMarker[1].state
             IN  IF state = <<>>
                 THEN [st EXCEPT !.trace = called,
                                 !.activeMarker = Annotated(@, item)]
                 ELSE [events |-> Append(st.events, Spread(item, state[1])),
                       activeMarker |-> Annotated(st.activeMarker, item),
                       trace |-> called]

\* handleEvent(item); fresh is what getBBox() of the next draft will return
handleEvent(st, item, fresh) ==
    LET called == Append(st.trace, [op |-> "handleEvent", item |-> item])
    IN  IF st.activeMarker = <<>>
        THEN [st EXCEPT !.trace = called]
        ELSE LET state == st.activeMarker[1].state
             IN  IF state = <<>>
                 THEN [st EXCEPT !.trace = called,
                                 !.activeMarker = Annotated(@, item)]
                 ELSE [events |-> Append(st.events, Spread(item, state[1])),
                       activeMarker |-> createMarker(fresh),
                       trace |-> called]

\* sendClientEvent(message) in the closure of the listener of channel ch
sendClientEvent(st, ch, message) ==
    IF ch # 0
    THEN [st EXCEPT !.trace = Append(@, [op |-> "send", message |-> message])]
    ELSE st

Acknowledgment(callId) ==
    [type |-> "conversation.item.create",
     item |-> [type |-> "function_call_output",
               call_id |-> callId,
               output |-> "received"]]

\* the callback that acknowledges before it handles
OnOutputAcknowledgingFirst(st, ch, output, fresh) ==
    IF output.type = "function_call"
    THEN LET callId == output.call_id
         IN  handleEvent(sendClientEvent(st, ch, Acknowledgment(callId)),
                         JSONparse(output.arguments), fresh)
    ELSE st

\* the callback of event.response.output.forEach
OnOutput(st, ch, output, fresh) ==
    IF output.type = "function_call"
    THEN LET callId == output.call_id
         IN  sendClientEvent(handleEvent(st, JSONparse(output.arguments), fresh),
                             ch, Acknowledgment(callId))
    ELSE st

RECURSIVE ForEachOutput(_, _, _, _, _)
ForEachOutput(st, ch, outputs, freshStates, k) ==
    IF k = 0 THEN st
    ELSE OnOutput(ForEachOutput(st, ch, outputs, freshStates, k - 1),
                  ch, outputs[k], freshStates[k])

\* Array.isArray(event.response?.output)
HasOutputArray(event) ==
    /\ "response" \in DOMAIN event
    /\ "output" \in DOMAIN event.response

\* the listener reacting to the output list of an event of any type
OnMessageOfAnyType(st, ch, event, freshStates) ==
    IF HasOutputArray(event)
    THEN ForEachOutput(st, ch, event.response.output, freshStates,
                       Len(event.response.output))
    ELSE st

\* the "message" listener of channel ch
OnMessage(st, ch, event, freshStates) ==
    IF event.type = "response.done"
    THEN IF HasOutputArray(event)
         THEN ForEachOutput(st, ch, event.response.output, freshStates,
                            Len(event.response.output))
         ELSE st
    ELSE st

-----------------------------------------------------------------------------
(* The application: state after mounting *)

markerVars == <<activeMarker>>

sessionVars ==
    <<start, key, dc, listening, peer, track, dataChannel, peerConnection,
      isSessionActive, stopped>>

\* reply when no server route ran last
NoReply == [route |-> "none"]

\* the refs and states of App once its mount effects have run
AppIdle ==
    /\ activeMarker = createMarker(<<>>)
    /\ start = [i \in Sessions |-> "notStarted"]
    /\ key = [i \in Sessions |-> FALSE]
    /\ dc = [i \in Sessions |-> "none"]
    /\ listening = [i \in Sessions |-> FALSE]
    /\ peer = [i \in Sessions |-> "none"]
    /\ track = [i \in Sessions |-> "none"]
    /\ dataChannel = 0
    /\ peerConnection = 0
    /\ isSessionActive = FALSE
    /\ stopped = [i \in Sessions |-> FALSE]
    /\ reply = NoReply
    /\ received = NoEvent
    /\ trace = <<>>

\* a callback other than the message listener ran
NoListenerRun == received' = NoEvent /\ trace' = <<>>

\* no server route ran
NoRouteRun == reply' = NoReply

-----------------------------------------------------------------------------
(* The specification: findConnections applied to every bounded input *)

Init ==
    /\ events \in Inputs
    /\ connections = <<>>
    /\ pc = "ready"
    /\ AppIdle

\* the effect adding the new connections to the held ones
InvokeMerging ==
    /\ pc = "ready"
    /\ connections' = connections \o findConnections(events)
    /\ pc' = "done"
    /\ UNCHANGED events
    /\ NoListenerRun /\ NoRouteRun
    /\ UNCHANGED <<markerVars, sessionVars>>

\* const newConnections = findConnections(events)
Invoke ==
    /\ pc = "ready"
    /\ connections' = findConnections(events)
    /\ pc' = "done"
    /\ UNCHANGED events
    /\ NoListenerRun /\ NoRouteRun
    /\ UNCHANGED <<markerVars, sessionVars>>

Next == Invoke

Spec == Init /\ [][Next]_vars

\* findConnections applied to every bounded sequence of the scenario boxes
InitScenario ==
    /\ events \in ScenarioInputs
    /\ connections = <<>>
    /\ pc = "ready"
    /\ AppIdle

SpecScenario == InitScenario /\ [][Next]_vars

-----------------------------------------------------------------------------
(* The application: the server routes *)

\* app.get("/token"): upstream is what the provider's API does
getToken(upstream) ==
    IF upstream = "network failure"
    THEN [route |-> "GET /token", status |-> 500,
          body |-> "Failed to generate token"]
    ELSE IF upstream = "credential failure"
         THEN [route |-> "GET /token", status |-> 200, body |-> "provider error"]
         ELSE [route |-> "GET /token", status |-> 200, body |-> "client secret"]

\* app.post("/session"): without a response when the upstream fetch rejects
postSession(upstream) ==
    IF upstream = "network failure"
    THEN [route |-> "POST /session", status |-> 0,
          body |-> "unhandled rejection"]
    ELSE IF upstream = "credential failure"
         THEN [route |-> "POST /session", status |-> 200,
               body |-> "provider error"]
         ELSE [route |-> "POST /session", status |-> 200, body |-> "sdp answer"]

Upstreams == {"ok", "credential failure", "network failure"}

\* a request to POST /session
SessionRequest(upstream) ==
    /\ reply' = postSession(upstream)
    /\ NoListenerRun
    /\ UNCHANGED <<events, connections, pc, markerVars, sessionVars>>

-----------------------------------------------------------------------------
(* The application: the session *)

InFlight == {"token", "media", "sdp"}

\* the session controls offer a start when no session is connecting or active
StartAvailable ==
    /\ ~isSessionActive
    /\ \A i \in Sessions : start[i] \in InFlight => stopped[i]

\* the session controls let the user stop at any point
StopAvailable == TRUE

\* startSession up to its first await: fetch("/token")
StartSession(i) ==
    /\ StartAvailable
    /\ start[i] = "notStarted"
    /\ \A j \in Sessions : j < i => start[j] # "notStarted"
    /\ start' = [start EXCEPT ![i] = "token"]
    /\ NoListenerRun /\ NoRouteRun
    /\ UNCHANGED <<events, connections, pc, markerVars, key, dc, listening,
                   peer, track, dataChannel, peerConnection, isSessionActive,
                   stopped>>

\* GET /token answers and startSession runs from the token response to the
\* await of getUserMedia
TokenArrives(i, upstream) ==
    /\ start[i] = "token"
    /\ reply' = getToken(upstream)
    /\ key' = [key EXCEPT ![i] = (reply'.body = "client secret")]
    /\ peer' = [peer EXCEPT ![i] = "open"]
    /\ start' = [start EXCEPT ![i] = "media"]
    /\ NoListenerRun
    /\ UNCHANGED <<events, connections, pc, markerVars, dc, listening, track,
                   dataChannel, peerConnection, isSessionActive, stopped>>

\* fetch("/token") rejects: the server cannot be reached
TokenFetchRejects(i) ==
    /\ start[i] = "token"
    /\ start' = [start EXCEPT ![i] = "failed"]
    /\ NoListenerRun /\ NoRouteRun
    /\ UNCHANGED <<events, connections, pc, markerVars, key, dc, listening,
                   peer, track, dataChannel, peerConnection, isSessionActive,
                   stopped>>

\* startSession from the microphone stream to the await of the SDP exchange
MediaArrives(i, granted) ==
    /\ start[i] = "media"
    /\ IF granted
       THEN /\ track' = [track EXCEPT ![i] = "live"]
            /\ dc' = [dc EXCEPT ![i] = "connecting"]
            /\ dataChannel' = i
            /\ start' = [start EXCEPT ![i] = "sdp"]
       ELSE /\ start' = [start EXCEPT ![i] = "failed"]
            /\ UNCHANGED <<track, dc, dataChannel>>
    /\ NoListenerRun /\ NoRouteRun
    /\ UNCHANGED <<events, connections, pc, markerVars, key, listening,
                   peer, peerConnection, isSessionActive, stopped>>

\* startSession from the SDP answer to its end: the answer is usable only if
\* the offer was sent with a client secret
SdpArrives(i, usable) ==
    /\ start[i] = "sdp"
    /\ usable => key[i]
    /\ IF usable
       THEN /\ peerConnection' = i
            /\ start' = [start EXCEPT ![i] = "done"]
       ELSE /\ start' = [start EXCEPT ![i] = "failed"]
            /\ UNCHANGED peerConnection
    /\ NoListenerRun /\ NoRouteRun
    /\ UNCHANGED <<events, connections, pc, markerVars, key, dc, listening,
                   peer, track, dataChannel, isSessionActive, stopped>>

\* the effect on [dataChannel]: listeners are attached to the channel
AttachListeners ==
    /\ dataChannel # 0
    /\ ~listening[dataChannel]
    /\ listening' = [listening EXCEPT ![dataChannel] = TRUE]
    /\ NoListenerRun /\ NoRouteRun
    /\ UNCHANGED <<events, connections, pc, markerVars, start, key, dc, peer,
                   track, dataChannel, peerConnection, isSessionActive, stopped>>

\* the channel of call i opens; its "open" listener runs if attached
ChannelOpens(i) ==
    /\ dc[i] = "connecting"
    /\ start[i] = "done"
    /\ peer[i] = "open"
    /\ dc' = [dc EXCEPT ![i] = "open"]
    /\ IF listening[i]
       THEN /\ isSessionActive' = TRUE
            /\ events' = <<>>
            /\ pc' = "ready"
       ELSE UNCHANGED <<isSessionActive, events, pc>>
    /\ NoListenerRun /\ NoRouteRun
    /\ UNCHANGED <<connections, markerVars, start, key, listening, peer,
                   track, dataChannel, peerConnection, stopped>>

\* a server event arrives on the open channel of call i; fresh is what
\* getBBox() returns for a draft marker created during the run
ServerMessage(i, event, fresh) ==
    /\ dc[i] = "open"
    /\ peer[i] = "open"
    /\ listening[i]
    /\ \E st \in { OnMessage(ListenerState(events, activeMarker, <<>>),
                              i, event, [k \in 1..MaxEntries |-> fresh]) } :
           /\ Len(st.events) <= MaxRecords
           /\ events' = st.events
           /\ activeMarker' = st.activeMarker
           /\ trace' = st.trace
           /\ pc' = IF st.events # events THEN "ready" ELSE pc
    /\ received' = [channel |-> i, event |-> event]
    /\ NoRouteRun
    /\ UNCHANGED <<connections, sessionVars>>

\* stopSession
StopSession ==
    /\ StopAvailable
    /\ dc' = [i \in Sessions |->
                IF (i = dataChannel \/ i = peerConnection) /\ dc[i] # "none"
                THEN "closed" ELSE dc[i]]
    /\ track' = [i \in Sessions |->
                    IF i = peerConnection /\ track[i] # "none"
                    THEN "stopped" ELSE track[i]]
    /\ peer' = [i \in Sessions |->
                    IF i = peerConnection THEN "closed" ELSE peer[i]]
    /\ isSessionActive' = FALSE
    /\ dataChannel' = 0
    /\ peerConnection' = 0
    /\ stopped' = [i \in Sessions |-> stopped[i] \/ start[i] # "notStarted"]
    /\ NoListenerRun /\ NoRouteRun
    /\ UNCHANGED <<events, connections, pc, markerVars, start, key, listening>>

\* the user places the draft marker
PlaceMarker(box) ==
    /\ activeMarker # <<>>
    /\ activeMarker[1].state # <<box>>
    /\ activeMarker' = << [activeMarker[1] EXCEPT !.state = <<box>>] >>
    /\ NoListenerRun /\ NoRouteRun
    /\ UNCHANGED <<events, connections, pc, sessionVars>>

InitApp ==
    /\ events = <<>>
    /\ connections = <<>>
    /\ pc = "ready"
    /\ AppIdle

\* one call of startSession, every server event
NextApp ==
    \/ Invoke
    \/ \E box \in MarkerBoxes : PlaceMarker(box)
    \/ StartSession(1)
    \/ \E upstream \in Upstreams : TokenArrives(1, upstream)
    \/ TokenFetchRejects(1)
    \/ \E granted \in BOOLEAN : MediaArrives(1, granted)
    \/ \E usable \in BOOLEAN : SdpArrives(1, usable)
    \/ AttachListeners
    \/ ChannelOpens(1)
    \/ \E event \in ServerEvents, fresh \in FreshStates :
          ServerMessage(1, event, fresh)
    \/ StopSession
    \/ \E upstream \in Upstreams : SessionRequest(upstream)

SpecApp == InitApp /\ [][NextApp]_vars

\* every call of startSession, the server events with function calls
NextRestart ==
    \/ Invoke
    \/ \E box \in MarkerBoxes : PlaceMarker(box)
    \/ \E i \in Sessions : StartSession(i)
    \/ \E i \in Sessions, upstream \in Upstreams : TokenArrives(i, upstream)
    \/ \E i \in Sessions : TokenFetchRejects(i)
    \/ \E i \in Sessions, granted \in BOOLEAN : MediaArrives(i, granted)
    \/ \E i \in Sessions, usable \in BOOLEAN : SdpArrives(i, usable)
    \/ AttachListeners
    \/ \E i \in Sessions : ChannelOpens(i)
    \/ \E i \in Sessions, event \in RestartEvents, fresh \in FreshStates :
          ServerMessage(i, event, fresh)
    \/ StopSession

SpecRestart == InitApp /\ [][NextRestart]_vars

-----------------------------------------------------------------------------
(* Vocabulary of the properties, stated on the input sequence as given *)

\* the input records a connection refers to
NeumeOf(c) == events[c.neumeId + 1]
SyllableOf(c) == events[c.syllableId + 1]

Positions == 1..Len(events)
Held == 1..Len(connections)

NumericXY(r) == "x" \in DOMAIN r /\ "y" \in DOMAIN r
NeumeRecord(r) == NumericXY(r) /\ r.type = "neume-type"
SyllableRecord(r) == NumericXY(r) /\ r.type # "neume-type"

\* S.y - (N.y + N.height)
Gap(N, S) == S.y - (N.y + N.height)
\* twice |Ncx - Scx|
Offset2(N, S) ==
    LET d == (2 * N.x + N.width) - (2 * S.x + S.width)
    IN  IF d < 0 THEN -d ELSE d
\* twice the score 2 * verticalDist + |Ncx - Scx|
Score2(N, S) == 4 * Gap(N, S) + Offset2(N, S)

\* Ncx within [S.x - S.width, S.x + 2 * S.width]
InBand(N, S) ==
    /\ 2 * N.x + N.width >= 2 * (S.x - S.width)
    /\ 2 * N.x + N.width <= 2 * (S.x + 2 * S.width)

EligibleFor(N, S) ==
    /\ S.y >= N.y
    /\ InBand(N, S)
    /\ 0 <= Gap(N, S)
    /\ Gap(N, S) < 5 * N.height

\* the positions of the syllable records eligible for the neume at position i
EligiblePositions(i) ==
    { j \in Positions :
        SyllableRecord(events[j]) /\ EligibleFor(events[i], events[j]) }

Box(r) == <<r.x, r.y, r.width, r.height>>

-----------------------------------------------------------------------------
\* C1: the output never holds two connections with the same neumeId (at most
\* one outgoing connection per neume); a syllableId may repeat.
AtMostOnePerNeume ==
    \A i, j \in Held :
        i # j => connections[i].neumeId # connections[j].neumeId

\* two neumes connected to the same syllable
SharedSyllableReached ==
    /\ pc = "done"
    /\ \E i, j \in Held :
        /\ i # j
        /\ connections[i].syllableId = connections[j].syllableId
        /\ connections[i].neumeId # connections[j].neumeId

\* C2: every emitted connection has a vertical gap S.y - (N.y + N.height)
\* that is at least 0 and below 5 * N.height.
GapBound ==
    \A i \in Held :
        LET N == NeumeOf(connections[i])
            S == SyllableOf(connections[i])
        IN  /\ 0 <= S.y - (N.y + N.height)
            /\ S.y - (N.y + N.height) < 5 * N.height

\* a connection over a positive gap, beside a syllable in the band whose gap
\* is exactly 5 * N.height and that is not connected
GapBoundReached ==
    /\ pc = "done"
    /\ \E i \in Held :
        LET N == NeumeOf(connections[i])
        IN  /\ Gap(N, SyllableOf(connections[i])) > 0
            /\ \E j \in Positions :
                /\ SyllableRecord(events[j])
                /\ InBand(N, events[j])
                /\ Gap(N, events[j]) = 5 * N.height
                /\ connections[i].syllableId # j - 1

\* C3: the target syllable's top edge is at or below the source neume's top
\* edge; a syllable whose top is above the neume's top is never selected.
VerticalOrdering ==
    \A i \in Held :
        SyllableOf(connections[i]).y >= NeumeOf(connections[i]).y

\* a neume with a syllable above it inside the horizontal band and no other
\* syllable: the neume stays without a connection
SyllableAboveReached ==
    /\ pc = "done"
    /\ connections = <<>>
    /\ \E i, j \in Positions :
        /\ NeumeRecord(events[i]) /\ events[i].height > 0
        /\ SyllableRecord(events[j])
        /\ events[j].y < events[i].y
        /\ InBand(events[i], events[j])

\* C4: the selected syllable has the minimum score among the syllables
\* eligible for the neume, and among those of minimum score it is the first
\* in input order.
MinimumScoreFirstWins ==
    \A i \in Held :
        LET c == connections[i]
            N == NeumeOf(c)
        IN  /\ c.syllableId + 1 \in EligiblePositions(c.neumeId + 1)
            /\ \A j \in EligiblePositions(c.neumeId + 1) :
                /\ Score2(N, SyllableOf(c)) <= Score2(N, events[j])
                /\ Score2(N, SyllableOf(c)) = Score2(N, events[j])
                      => c.syllableId + 1 <= j

\* two eligible syllables in different boxes share the minimum score and the
\* earlier one is connected
TieReached ==
    /\ pc = "done"
    /\ \E i \in Held :
        LET c == connections[i]
            N == NeumeOf(c)
        IN  \E j \in EligiblePositions(c.neumeId + 1) :
                /\ j > c.syllableId + 1
                /\ Score2(N, events[j]) = Score2(N, SyllableOf(c))
                /\ Box(events[j]) # Box(SyllableOf(c))

-----------------------------------------------------------------------------
\* the input without the records whose x or y is not a number
WellFormedOnly(evs) == SelectSeq(evs, NumericXY)

\* the position (0-based) that the record at 0-based position id of events
\* has in WellFormedOnly(events)
Rank(id) == Cardinality({ j \in 1..id : NumericXY(events[j]) })

Reindexed(c) ==
    [c EXCEPT !.neumeId = Rank(c.neumeId), !.syllableId = Rank(c.syllableId)]

\* C6: a record whose x or y is not a number is never the neumeId or the
\* syllableId of a connection, and the connections are those computed from
\* the input without such records, up to the positional indices.
MalformedExcluded ==
    pc = "done" =>
        /\ \A i \in Held :
            /\ NumericXY(NeumeOf(connections[i]))
            /\ NumericXY(SyllableOf(connections[i]))
        /\ [i \in Held |-> Reindexed(connections[i])]
              = findConnections(WellFormedOnly(events))

\* a connection between two records that come after a malformed record
MalformedSkippedReached ==
    /\ pc = "done"
    /\ Len(events) >= 1
    /\ ~NumericXY(events[1])
    /\ \E i \in Held :
        /\ connections[i].neumeId >= 1
        /\ connections[i].syllableId >= 1

\* C7: the connections are ordered by increasing neumeId, the order in which
\* the neume records appear in the input.
OrderedByNeumeId ==
    \A i, j \in Held :
        i < j => connections[i].neumeId < connections[j].neumeId

\* two neumes connected, the later one to a syllable that comes before both
TwoNeumesConnectedReached ==
    /\ pc = "done"
    /\ Len(connections) >= 2
    /\ connections[2].syllableId < connections[1].neumeId

\* C9 as stated: whenever a neume has an eligible syllable with a strictly
\* smaller vertical gap than another eligible one, it is connected to the
\* vertically closer one, however the two are centered.
VerticallyCloserAlwaysWins ==
    \A i \in Held :
        LET c == connections[i]
            N == NeumeOf(c)
        IN  \A j \in EligiblePositions(c.neumeId + 1) :
                Gap(N, events[j]) >= Gap(N, SyllableOf(c))

\* C9 as amended: the vertically closer syllable wins over a more centered
\* one whenever its horizontal offset exceeds the other's by less than twice
\* the difference of the vertical gaps.
VerticallyCloserWinsWithinWeight ==
    \A i \in Held :
        LET c == connections[i]
            N == NeumeOf(c)
            S == SyllableOf(c)
        IN  \A j \in EligiblePositions(c.neumeId + 1) :
                Gap(N, events[j]) < Gap(N, S) =>
                    Offset2(N, events[j]) - Offset2(N, S)
                        >= 4 * (Gap(N, S) - Gap(N, events[j]))

\* a neume connected to the vertically closer of two eligible syllables while
\* the other one is more centered
CloserBeatsCenteredReached ==
    /\ pc = "done"
    /\ \E i \in Held :
        LET c == connections[i]
            N == NeumeOf(c)
            S == SyllableOf(c)
        IN  \E j \in EligiblePositions(c.neumeId + 1) :
                /\ Gap(N, events[j]) > Gap(N, S)
                /\ Offset2(N, events[j]) < Offset2(N, S)

\* the orderings of an input of length n
Permutations(n) ==
    { p \in [1..n -> 1..n] : \A a, b \in 1..n : a # b => p[a] # p[b] }

Permuted(evs, p) == [i \in 1..Len(evs) |-> evs[p[i]]]

\* the neume box / syllable box pairs that a connection list links in evs
Associations(evs, conns) ==
    { <<Box(evs[conns[k].neumeId + 1]), Box(evs[conns[k].syllableId + 1])>> :
        k \in 1..Len(conns) }

\* no neume has two eligible syllables in different boxes that share its
\* minimum score
NoAmbiguousTie ==
    \A i \in Positions :
        NeumeRecord(events[i]) =>
            \A j, k \in EligiblePositions(i) :
                (/\ Score2(events[i], events[j]) = Score2(events[i], events[k])
                 /\ \A m \in EligiblePositions(i) :
                       Score2(events[i], events[j]) <= Score2(events[i], events[m]))
                    => Box(events[j]) = Box(events[k])

PermutationLeavesAssociations ==
    \A p \in Permutations(Len(events)) :
        Associations(Permuted(events, p), findConnections(Permuted(events, p)))
            = Associations(events, connections)

\* C10 as stated: every ordering of the same records links the same neume
\* boxes to the same syllable boxes.
PermutationInvariant ==
    pc = "done" => PermutationLeavesAssociations

\* C10 as amended: every ordering links the same boxes provided no neume has
\* two eligible syllables in different boxes sharing its minimum score.
PermutationInvariantWithoutTies ==
    (pc = "done" /\ NoAmbiguousTie) => PermutationLeavesAssociations

\* a neume with two eligible syllables of different scores, given with the
\* better syllable last
UntiedChoiceReached ==
    /\ pc = "done"
    /\ NoAmbiguousTie
    /\ \E i \in Held :
        LET c == connections[i]
            N == NeumeOf(c)
        IN  \E j \in EligiblePositions(c.neumeId + 1) :
                /\ j < c.syllableId + 1
                /\ Score2(N, events[j]) > Score2(N, SyllableOf(c))

-----------------------------------------------------------------------------
\* C11: every connection carries the neume's bottom-center and the selected
\* syllable's top-center (the x values as twice their value), and the neume
\* {x:0,y:0,width:10,height:10} with the syllable {x:0,y:15,width:10,height:5}
\* gives exactly one connection, from (5,10) to (5,15).
AnchorsBottomCenterToTopCenter ==
    /\ \A i \in Held :
        LET c == connections[i]
            N == NeumeOf(c)
            S == SyllableOf(c)
        IN  /\ c.neumeX2 = 2 * N.x + N.width
            /\ c.neumeY = N.y + N.height
            /\ c.syllableX2 = 2 * S.x + S.width
            /\ c.syllableY = S.y
    /\ (/\ pc = "done"
        /\ events = << Box4("neume-type", 0, 0, 10, 10),
                       Box4("syllable-type", 0, 15, 10, 5) >>)
          => connections = << [neumeId |-> 0, syllableId |-> 1,
                               neumeX2 |-> 10, neumeY |-> 10,
                               syllableX2 |-> 10, syllableY |-> 15] >>

\* Scenario A has been computed
ScenarioAReached ==
    /\ pc = "done"
    /\ events = << Box4("neume-type", 0, 0, 10, 10),
                   Box4("syllable-type", 0, 15, 10, 5) >>
    /\ Len(connections) = 1

\* C12: findConnections has no failure outcome: applied to any input it
\* returns a list, no longer than the input, of at most one well-formed
\* connection per well-formed neume, the empty list for the empty input, and
\* nothing for records whose coordinates are not numbers.
NoFailureOutcome ==
    /\ pc = "ready" => Len(findConnections(events)) <= Len(events)
    /\ pc = "done" =>
        /\ DOMAIN connections = 1..Len(connections)
        /\ \A i \in Held :
            DOMAIN connections[i] =
                {"neumeId", "syllableId", "neumeX2", "neumeY",
                 "syllableX2", "syllableY"}
        /\ Len(connections) <=
              Cardinality({ j \in Positions : NeumeRecord(events[j]) })
        /\ events = <<>> => connections = <<>>
        /\ (\A j \in Positions : ~NumericXY(events[j])) => connections = <<>>

\* an input of malformed records only, a neume and a syllable among them
OnlyMalformedReached ==
    /\ pc = "done"
    /\ connections = <<>>
    /\ Len(events) >= 2
    /\ \A j \in Positions : ~NumericXY(events[j])
    /\ \E j, k \in Positions :
        events[j].type = "neume-type" /\ events[k].type # "neume-type"

-----------------------------------------------------------------------------
(* C13 *)

\* C13: once stopSession has been invoked, every call of startSession made
\* before it holds no live audio track, no open peer connection and no
\* connecting or open data channel, and the message listener of its channel
\* handles no function call
StopReleasesEverything ==
    \A i \in Sessions :
        stopped[i] =>
            /\ track[i] # "live"
            /\ peer[i] # "open"
            /\ dc[i] \notin {"connecting", "open"}
            /\ (received # NoEvent /\ received.channel = i => trace = <<>>)

-----------------------------------------------------------------------------
(* C14 *)

\* what the listener is to do for a list of output entries: for each
\* function_call entry in order, handle its arguments, then send one
\* function_call_output with its call_id and the output "received"
RECURSIVE ExpectedTrace(_)
ExpectedTrace(outputs) ==
    IF outputs = <<>>
    THEN <<>>
    ELSE LET o == Head(outputs)
         IN  (IF o.type = "function_call"
              THEN << [op |-> "handleEvent", item |-> JSONparse(o.arguments)],
                      [op |-> "send",
                       message |-> [type |-> "conversation.item.create",
                                    item |-> [type |-> "function_call_output",
                                              call_id |-> o.call_id,
                                              output |-> "received"]]] >>
              ELSE <<>>)
             \o ExpectedTrace(Tail(outputs))

ResponseDoneReceived ==
    /\ received # NoEvent
    /\ received.event.type = "response.done"
    /\ "response" \in DOMAIN received.event
    /\ "output" \in DOMAIN received.event.response

-----------------------------------------------------------------------------
(* C15 *)

\* the records of a are the first records of b, at the same indices
IsPrefix(a, b) == Len(a) <= Len(b) /\ SubSeq(b, 1, Len(a)) = a

\* the calls of handleEvent in a run of the listener
HandledIn(tr) == { k \in 1..Len(tr) : tr[k].op = "handleEvent" }

\* the step is the "open" listener of a data channel
OpenListenerRuns ==
    \E i \in Sessions :
        dc[i] = "connecting" /\ dc'[i] = "open" /\ listening[i]

\* C15: a step changes the record sequence only by appending at its end, one
\* record at most per function call the message listener handles, all earlier
\* records staying at their indices, or by resetting it to empty in the
\* "open" listener of a data channel; every other step, stopSession
\* included, leaves it as it is
RecordsAppendOrReset ==
    [][ \/ events' = events
        \/ /\ received' # NoEvent
           /\ IsPrefix(events, events')
           /\ Len(events') - Len(events) <= Cardinality(HandledIn(trace'))
        \/ /\ OpenListenerRuns
           /\ events' = <<>> ]_vars

\* a session has started again: the "open" listener has emptied a sequence
\* whose connections are still held
ResetAfterAppendsReached ==
    /\ events = <<>>
    /\ connections # <<>>
    /\ \E i \in Sessions : dc[i] = "open" /\ listening[i] /\ stopped[1]

-----------------------------------------------------------------------------
(* C16 *)

\* C16: every step that changes the record sequence, by an append or by a
\* reset, leaves a recomputation pending, and after every step with no
\* recomputation pending the held connections are findConnections of the
\* whole current sequence, nothing of an earlier sequence being kept
RecomputedAfterEveryChange ==
    [][ /\ events' # events => pc' = "ready"
        /\ pc' = "done" => connections' = findConnections(events') ]_vars

\* in a session started after a stop, the "open" listener has reset the
\* records, records were appended and their connections have been recomputed
RecomputedInSecondSessionReached ==
    /\ pc = "done"
    /\ connections # <<>>
    /\ isSessionActive
    /\ dc[2] = "open" /\ listening[2]
    /\ stopped[1] /\ dc[1] = "closed"

-----------------------------------------------------------------------------
(* C17 *)

\* a route has answered a request during which the provider failed
FailureReplied ==
    /\ reply # NoReply
    /\ reply.body \notin {"client secret", "sdp answer"}

\* C17: a network or credential failure during GET /token or POST /session
\* is answered with an HTTP error status, and no call of startSession ends
\* in an unhandled error
FailuresSurfacedAsErrorStatus ==
    /\ FailureReplied => reply.status >= 400
    /\ \A i \in Sessions : start[i] # "failed"

-----------------------------------------------------------------------------
(* C18 *)

\* the function_call entries of a server event: those of the output list of
\* a response.done, none for any other event
FunctionCallsOf(event) ==
    IF /\ event.type = "response.done"
       /\ "response" \in DOMAIN event
       /\ "output" \in DOMAIN event.response
    THEN { k \in 1..Len(event.response.output) :
             event.response.output[k].type = "function_call" }
    ELSE {}

\* C18: a run of the message listener on an event that is not a
\* response.done, or whose entries are not function calls, leaves the records
\* and the connections unchanged and sends nothing; on any event it appends
\* no more records than there are function_call entries, and every
\* acknowledgment it sends carries the call_id of one of them
OnlyFunctionCallsOfResponseDone ==
    [][ received' # NoEvent =>
          LET event == received'.event
              calls == FunctionCallsOf(event)
          IN  /\ connections' = connections
              /\ calls = {} => events' = events /\ trace' = <<>>
              /\ Len(events') - Len(events) <= Cardinality(calls)
              /\ \A k \in 1..Len(trace') :
                    trace'[k].op = "send" =>
                        \E c \in calls :
                            event.response.output[c].call_id =
                                trace'[k].message.item.call_id ]_vars

\* the listener has run on an event of another type that carries a function
\* call, with a placed marker, and did nothing
OtherEventIgnoredReached ==
    /\ received # NoEvent
    /\ received.event.type # "response.done"
    /\ "response" \in DOMAIN received.event
    /\ activeMarker # <<>>
    /\ activeMarker[1].state # <<>>
    /\ trace = <<>>

-----------------------------------------------------------------------------
(* C19 *)

\* the input with every tag other than the neume tag replaced by the
\* syllable tag
Retagged(evs) ==
    [k \in 1..Len(evs) |->
        [evs[k] EXCEPT !.type = IF @ = "neume-type" THEN @ ELSE "syllable-type"]]

\* C19: every record with numeric position whose tag is not the neume tag,
\* whatever the tag, is treated as a syllable: no connection starts at it,
\* and the connections are those of the input in which it carries the
\* syllable tag, so that it is a target wherever a syllable would be
OtherTagsAreSyllables ==
    pc = "done" =>
        /\ \A k \in Held : NeumeOf(connections[k]).type = "neume-type"
        /\ connections = findConnections(Retagged(events))

\* a neume is connected to a record tagged neither neume nor syllable
OtherTagTargetReached ==
    /\ pc = "done"
    /\ \E k \in Held :
          SyllableOf(connections[k]).type \notin {"neume-type", "syllable-type"}

-----------------------------------------------------------------------------
(* C20 *)

\* the active draft marker exists and reports a bounding box
MarkerPlaced == activeMarker # <<>> /\ activeMarker[1].state # <<>>

\* the record made of the arguments of a call and of a bounding box
RecordOf(item, bbox) ==
    [type |-> item.type, value |-> item.value,
     x |-> bbox.x, y |-> bbox.y, width |-> bbox.width, height |-> bbox.height]

\* the message sent carries the acknowledgment of callId
Acknowledges(entry, callId) ==
    /\ entry.op = "send"
    /\ entry.message.type = "conversation.item.create"
    /\ entry.message.item.type = "function_call_output"
    /\ entry.message.item.call_id = callId
    /\ entry.message.item.output = "received"

-----------------------------------------------------------------------------
(* C22 *)

\* C22: in every connection neumeId and syllableId are positions of the
\* input; the record at neumeId is tagged as neume, the record at syllableId
\* is not, and both have numeric x and y; so the two ids differ and no neume
\* is linked to another neume
EndpointsValid ==
    \A k \in Held :
        LET c == connections[k]
        IN  /\ c.neumeId + 1 \in Positions
            /\ c.syllableId + 1 \in Positions
            /\ NeumeRecord(NeumeOf(c))
            /\ SyllableRecord(SyllableOf(c))
            /\ c.neumeId # c.syllableId
            /\ SyllableOf(c).type # "neume-type"

\* the last record of the input is a neume connected to a syllable that
\* comes before it, with another neume in between
NeumeAfterItsSyllableReached ==
    /\ pc = "done"
    /\ \E k \in Held :
        /\ connections[k].neumeId = Len(events) - 1
        /\ connections[k].syllableId = 0
        /\ \E j \in Positions :
            /\ connections[k].syllableId + 1 < j
            /\ j < connections[k].neumeId + 1
            /\ NeumeRecord(events[j])

-----------------------------------------------------------------------------
(* C23 *)

\* C23: a neume of height 0 never has a connection, whatever the syllables
EmptyIntervalForFlatNeume ==
    \A k \in Held :
        /\ connections[k].neumeId + 1 \in Positions
        /\ NeumeOf(connections[k]).height # 0

\* a neume of height 0 with a syllable inside its band whose top is at the
\* neume's bottom, and no connection for it
FlatNeumeUnconnectedReached ==
    /\ pc = "done"
    /\ \E i, j \in Positions :
        /\ NeumeRecord(events[i]) /\ events[i].height = 0
        /\ SyllableRecord(events[j])
        /\ InBand(events[i], events[j])
        /\ Gap(events[i], events[j]) = 0
        /\ \A k \in Held : connections[k].neumeId # i - 1

-----------------------------------------------------------------------------
(* C21 *)

\* the input before its last record was appended, and that record
Earlier == SubSeq(events, 1, Len(events) - 1)
Appended == events[Len(events)]

\* C21: the connections of an input that ends with an appended record keep
\* every connection of the input without it: each neume connected before is
\* connected after, to the same syllable with the same anchors; only when
\* the appended record is a syllable may the target be another one, and then
\* it is the appended syllable and its score is strictly lower than that of
\* the earlier target
AppendKeepsConnections ==
    pc = "done" /\ events # <<>> =>
        LET before == findConnections(Earlier)
        IN  \A k \in 1..Len(before) :
                LET c == before[k]
                    N == Earlier[c.neumeId + 1]
                    S == Earlier[c.syllableId + 1]
                IN  \E m \in Held :
                        /\ connections[m].neumeId = c.neumeId
                        /\ \/ connections[m] = c
                           \/ /\ SyllableRecord(Appended)
                              /\ connections[m].syllableId = Len(events) - 1
                              /\ Score2(N, Appended) < Score2(N, S)

\* a neume connected before the append is connected to the appended
\* syllable, in another box than its earlier target
RetargetedToAppendedReached ==
    /\ pc = "done"
    /\ Len(events) >= 2
    /\ SyllableRecord(Appended)
    /\ LET before == findConnections(Earlier)
       IN  \E k \in 1..Len(before), m \in Held :
               /\ connections[m].neumeId = before[k].neumeId
               /\ connections[m].syllableId = Len(events) - 1
               /\ Box(Appended) # Box(Earlier[before[k].syllableId + 1])

====
